---- MODULE Spec2Model ----
(***************************************************************************)
(* A model of src/src/signature.js: the recoverable-ECDSA Signature value, *)
(* its canonical signing loop, public-key recovery parameter bookkeeping   *)
(* and its byte / hex / prefixed base58-checksum serialisations.           *)
(*                                                                         *)
(* Representation.  A byte buffer is a sequence of integers 0..255.  A     *)
(* string is a sequence of one-character strings.  A BigInteger is its     *)
(* minimal unsigned big-endian byte array (no leading zero byte; zero is   *)
(* the empty sequence), which is what bigi's toByteArrayUnsigned yields.   *)
(***************************************************************************)
EXTENDS Integers, Sequences, FiniteSets, Bags

(***************************************************************************)
(* Program constants                                                       *)
(***************************************************************************)
SigLen == 65
CompLen == 32
RecIdBase == 27
CompressedFlag == 4
HexLen == 130
WarnEvery == 10
ChecksumLen == 4

(***************************************************************************)
(* Bounds of the model                                                     *)
(***************************************************************************)
\* The sign primitive may return a non-canonical result at most this many
\* times in a row (the code's loop itself has no cap).
MaxNonce == 21

(***************************************************************************)
(* Bytes and buffers                                                       *)
(***************************************************************************)
Fill(b, n) == [k \in 1..n |-> b]

\* buf.slice(a, b) with 0-based, end-exclusive, non-negative indexes.
Slice(buf, a, b) ==
    LET lo == IF a > Len(buf) THEN Len(buf) ELSE a
        hi == IF b > Len(buf) THEN Len(buf) ELSE b
    IN  IF hi <= lo THEN <<>> ELSE SubSeq(buf, lo + 1, hi)

\* buf.slice(-n): the last n elements; buf.slice(0, -n): all but the last n.
SliceLast(buf, n) == Slice(buf, IF Len(buf) > n THEN Len(buf) - n ELSE 0, Len(buf))
SliceButLast(buf, n) == Slice(buf, 0, IF Len(buf) > n THEN Len(buf) - n ELSE 0)

\* src.copy(target, targetStart): overwrites target from 0-based targetStart
\* with as many bytes of src as fit.
Copy(src, target, targetStart) ==
    [k \in 1..Len(target) |->
        IF k > targetStart /\ k - targetStart <= Len(src)
        THEN src[k - targetStart] ELSE target[k]]

\* x & m of JavaScript for a mask 0 <= m < 256: the operands are 32-bit
\* two's complement, so only the low byte of x matters.
RECURSIVE AndNat(_, _)
AndNat(x, y) ==
    IF x = 0 \/ y = 0 THEN 0
    ELSE 2 * AndNat(x \div 2, y \div 2) + (IF x % 2 = 1 /\ y % 2 = 1 THEN 1 ELSE 0)

BitAnd(x, m) == AndNat(x % 256, m)

(***************************************************************************)
(* BigInteger (bigi)                                                       *)
(***************************************************************************)
Min(S) == CHOOSE x \in S : \A y \in S : x <= y

\* The number of leading elements of seq equal to z.
LeadingCount(seq, z) ==
    LET other == {k \in 1..Len(seq) : seq[k] # z}
    IN  IF other = {} THEN Len(seq) ELSE Min(other) - 1

StripZeros(bytes) == Slice(bytes, LeadingCount(bytes, 0), Len(bytes))

\* BigInteger.fromBuffer: the unsigned big-endian value of the bytes.
BigFromBuffer(bytes) == StripZeros(bytes)

\* big.toBuffer(size): zero-padded on the left up to size; never truncated.
BigToBuffer(big, size) ==
    IF Len(big) >= size THEN big ELSE Fill(0, size - Len(big)) \o big

\* big.toDERInteger(): minimal signed big-endian bytes of a non-negative value.
ToDERInteger(big) ==
    IF big = <<>> THEN <<0>>
    ELSE IF big[1] >= 128 THEN <<0>> \o big ELSE big

\* ecsignature.toDER(): 0x30 len 0x02 lenR r 0x02 lenS s.
ToDER(ecsig) ==
    LET rBa == ToDERInteger(ecsig.r)
        sBa == ToDERInteger(ecsig.s)
        body == <<2, Len(rBa)>> \o rBa \o <<2, Len(sBa)>> \o sBa
    IN  <<48, Len(body)>> \o body

(***************************************************************************)
(* bs58                                                                    *)
(***************************************************************************)
ALPHABET ==
    << "1","2","3","4","5","6","7","8","9",
       "A","B","C","D","E","F","G","H","J","K","L","M","N","P","Q","R","S",
       "T","U","V","W","X","Y","Z",
       "a","b","c","d","e","f","g","h","i","j","k","m","n","o","p","q","r",
       "s","t","u","v","w","x","y","z" >>

\* The conversion works on limbs of three digits (58^3 on encoding, 256^3 on
\* decoding) so that every product stays below 2^31.
Limb58 == 58 * 58 * 58
Limb256 == 256 * 256 * 256

\* limbs * mul + carry over the little-endian limbs lo..hi; st = [c, acc].
\* (The range is halved, and the left half is evaluated before the right
\* half is entered, to keep the evaluation shallow.)
RECURSIVE MulAddRange(_, _, _, _, _, _)
MulAddRange(limbs, lo, hi, mul, base, st) ==
    IF lo > hi THEN st
    ELSE IF lo = hi
    THEN LET v == limbs[lo] * mul + st.c
         IN  [c |-> v \div base, acc |-> Append(st.acc, v % base)]
    ELSE LET mid == (lo + hi) \div 2
             left == MulAddRange(limbs, lo, mid, mul, base, st)
         IN  IF left.c >= 0
             THEN MulAddRange(limbs, mid + 1, hi, mul, base, left)
             ELSE left

MulAdd(limbs, add, mul, base) ==
    LET st == MulAddRange(limbs, 1, Len(limbs), mul, base, [c |-> add, acc |-> <<>>])
    IN  IF st.c = 0 THEN st.acc ELSE Append(st.acc, st.c)

\* The number with big-endian digits src[lo..hi] (each below mul) appended to
\* the number held in limbs.
RECURSIVE Convert(_, _, _, _, _, _)
Convert(src, lo, hi, mul, base, limbs) ==
    IF lo > hi THEN limbs
    ELSE IF lo = hi THEN MulAdd(limbs, src[lo], mul, base)
    ELSE LET mid == (lo + hi) \div 2
             left == Convert(src, lo, mid, mul, base, limbs)
         IN  IF Len(left) >= 0
             THEN Convert(src, mid + 1, hi, mul, base, left)
             ELSE left

\* The big-endian digits (base d) of little-endian limbs of three digits,
\* without leading zero digits.
Digits(limbs, d) ==
    LET n == Len(limbs)
        all == [k \in 1..(3 * n) |->
                  LET limb == limbs[n - ((k - 1) \div 3)]
                      pos == (k - 1) % 3
                  IN  IF pos = 0 THEN limb \div (d * d)
                      ELSE IF pos = 1 THEN (limb \div d) % d
                      ELSE limb % d]
        lead == IF n = 0 THEN 0
                ELSE IF all[1] # 0 THEN 0 ELSE IF all[2] # 0 THEN 1 ELSE 2
    IN  IF n = 0 THEN <<>> ELSE SubSeq(all, lead + 1, 3 * n)

\* base58.encode: one "1" per leading zero byte, then the base-58 digits of
\* the rest, most significant first.
Base58Encode(bytes) ==
    LET zeros == LeadingCount(bytes, 0)
        digits == Digits(Convert(bytes, zeros + 1, Len(bytes), 256, Limb58, <<>>), 58)
    IN  Fill(ALPHABET[1], zeros) \o [k \in 1..Len(digits) |-> ALPHABET[digits[k] + 1]]

AlphabetChars == {ALPHABET[a] : a \in 1..58}

IsBase58(str) == \A k \in 1..Len(str) : str[k] \in AlphabetChars

ALPHABET_MAP == [c \in AlphabetChars |-> (CHOOSE a \in 1..58 : ALPHABET[a] = c) - 1]

\* base58.decode of a string of alphabet characters (it throws on any other):
\* one zero byte per leading "1", then the bytes of the rest.
Base58Decode(str) ==
    LET vals == [k \in 1..Len(str) |-> ALPHABET_MAP[str[k]]]
        zeros == LeadingCount(vals, 0)
    IN  Fill(0, zeros) \o Digits(Convert(vals, zeros + 1, Len(vals), 58, Limb256, <<>>), 256)

(***************************************************************************)
(* Hex (Buffer.toString('hex'), Buffer.from(s, 'hex'))                     *)
(***************************************************************************)
HEX == << "0","1","2","3","4","5","6","7","8","9","a","b","c","d","e","f" >>

ToHexString(bytes) ==
    [k \in 1..(2 * Len(bytes)) |->
        LET b == bytes[(k + 1) \div 2]
        IN  IF k % 2 = 1 THEN HEX[(b \div 16) + 1] ELSE HEX[(b % 16) + 1]]

HexChars == {HEX[a] : a \in 1..16}
IsHexChar(c) == c \in HexChars
HexVal == [c \in HexChars |-> (CHOOSE a \in 1..16 : HEX[a] = c) - 1]

\* Buffer.from(str, 'hex'): whole pairs of hex digits, up to the first pair
\* that is not hex.
FromHexString(str) ==
    LET pairs == Len(str) \div 2
        bad == {k \in 1..pairs : ~(IsHexChar(str[2 * k - 1]) /\ IsHexChar(str[2 * k]))}
        n == IF bad = {} THEN pairs ELSE Min(bad) - 1
    IN  [k \in 1..n |-> 16 * HexVal[str[2 * k - 1]] + HexVal[str[2 * k]]]

(***************************************************************************)
(* hash.ripemd160 (./hash): a deterministic 20-byte digest of a buffer.    *)
(* The digest function itself is outside signature.js; this stand-in is a  *)
(* position-weighted sum of the bytes modulo 251 for each output byte.     *)
(* Every input byte bears on every output byte and, like any 4-byte        *)
(* truncation of a digest, it has collisions: two buffers that differ in   *)
(* one byte collide exactly when the two bytes agree modulo 251.           *)
(***************************************************************************)
\* The sum of a sequence of positive integers (the size of the bag that
\* holds k that many times).
SumPos(seq) == BagCardinality(seq)

ripemd160(buf) ==
    [n \in 1..20 |->
        SumPos([k \in 1..(Len(buf) + 1) |->
                   IF k > Len(buf) THEN n
                   ELSE (buf[k] + 1) * (1 + ((n + k) % 250))]) % 251]

(***************************************************************************)
(* JavaScript values                                                       *)
(***************************************************************************)
Undefined == [tag |-> "undefined"]
Null == [tag |-> "null"]
JsString(chars) == [tag |-> "string", str |-> chars]
JsBuffer(bytes) == [tag |-> "buffer", bytes |-> bytes]
JsNumber(n) == [tag |-> "number", num |-> n]
JsBig(big) == [tag |-> "BigInteger", big |-> big]
JsObject(r, s, i) == [tag |-> "object", r |-> r, s |-> s, i |-> i]

\* ToBoolean: undefined, null, 0 and "" are falsy; objects are truthy.
Truthy(v) ==
    CASE v.tag = "undefined" -> FALSE
      [] v.tag = "null" -> FALSE
      [] v.tag = "number" -> v.num # 0
      [] v.tag = "string" -> Len(v.str) > 0
      [] OTHER -> TRUE

\* A thrown error: its class and message (a template and its substitutions).
Throw(error, template, args) ==
    [tag |-> "throw", error |-> error, message |-> [template |-> template, args |-> args]]

\* What assert.equal(actual, expected, message) throws when actual != expected:
\* an AssertionError with the given message, which also carries both values.
AssertEqual(actual, expected, template, args) ==
    [tag |-> "throw", error |-> "AssertionError",
     message |-> [template |-> template, args |-> args],
     actual |-> actual, expected |-> expected]

IsThrow(v) == v.tag = "throw"

(***************************************************************************)
(* config.address_prefix (./config): the process-wide default prefix.      *)
(***************************************************************************)
address_prefix == <<"E", "O", "S">>

(***************************************************************************)
(* Signature(r, s, i): the three values; r, s and i are never null at any  *)
(* call the module makes.                                                  *)
(***************************************************************************)
Signature(r, s, i) == [tag |-> "Signature", r |-> r, s |-> s, i |-> i]

\* The instance seen as a plain JavaScript object with properties r, s, i.
AsObject(sg) == JsObject(JsBig(sg.r), JsBig(sg.s), JsNumber(sg.i))

\* recoverHash: i2 = i; i2 -= 27; i2 = i2 & 3.
recoverParam_low3(i) == BitAnd(i - RecIdBase, 7)
recoverParam(i) == BitAnd(i - RecIdBase, 3)

\* toBuffer: new Buffer(65) holds whatever the allocator left there (junk)
\* until it is written.
toBuffer_unpadded(sg, junk) ==
    LET buf0 == Fill(junk, SigLen)
        buf1 == [buf0 EXCEPT ![1] = sg.i]
        buf2 == Copy(sg.r, buf1, 1)
    IN  Copy(sg.s, buf2, 1 + CompLen)
toBuffer(sg, junk) ==
    LET buf0 == Fill(junk, SigLen)
        buf1 == [buf0 EXCEPT ![1] = sg.i]
        buf2 == Copy(BigToBuffer(sg.r, CompLen), buf1, 1)
    IN  Copy(BigToBuffer(sg.s, CompLen), buf2, 1 + CompLen)

toHex(sg, junk) == ToHexString(toBuffer(sg, junk))

\* toString: the memoized body is used when truthy, computed and stored
\* otherwise.  Yields the returned string, the cache afterwards and whether
\* the body was computed by this call.
toString_cachePrefixed(sg, cache, prefix, junk) ==
    IF Truthy(cache)
    THEN [ret |-> prefix \o cache.str, cache |-> cache, computed |-> FALSE]
    ELSE LET pub_buf == toBuffer(sg, junk)
             checksum == ripemd160(pub_buf)
             signatureString == pub_buf \o Slice(checksum, 0, ChecksumLen)
             body == Base58Encode(signatureString)
         IN  [ret |-> prefix \o body, cache |-> JsString(prefix \o body), computed |-> TRUE]
toString(sg, cache, prefix, junk) ==
    IF Truthy(cache)
    THEN [ret |-> prefix \o cache.str, cache |-> cache, computed |-> FALSE]
    ELSE LET pub_buf == toBuffer(sg, junk)
             checksum == ripemd160(pub_buf)
             signatureString == pub_buf \o Slice(checksum, 0, ChecksumLen)
             body == Base58Encode(signatureString)
         IN  [ret |-> prefix \o body, cache |-> JsString(body), computed |-> TRUE]

\* Signature.fromBuffer (the argument is a Buffer at every call modelled).
fromBuffer_low4(buf) ==
    IF Len(buf) # SigLen
    THEN AssertEqual(JsNumber(Len(buf)), JsNumber(SigLen), "Invalid signature length", <<>>)
    ELSE LET i == buf[1]
         IN  IF i - RecIdBase # BitAnd(i - RecIdBase, 15)
             THEN AssertEqual(JsNumber(i - RecIdBase), JsNumber(BitAnd(i - RecIdBase, 15)),
                              "Invalid signature parameter", <<>>)
             ELSE Signature(BigFromBuffer(Slice(buf, 1, 1 + CompLen)),
                            BigFromBuffer(Slice(buf, 1 + CompLen, Len(buf))), i)
fromBuffer(buf) ==
    IF Len(buf) # SigLen
    THEN AssertEqual(JsNumber(Len(buf)), JsNumber(SigLen), "Invalid signature length", <<>>)
    ELSE LET i == buf[1]
         IN  IF i - RecIdBase # BitAnd(i - RecIdBase, 7)
             THEN AssertEqual(JsNumber(i - RecIdBase), JsNumber(BitAnd(i - RecIdBase, 7)),
                              "Invalid signature parameter", <<>>)
             ELSE Signature(BigFromBuffer(Slice(buf, 1, 1 + CompLen)),
                            BigFromBuffer(Slice(buf, 1 + CompLen, Len(buf))), i)

fromHex(hex) == fromBuffer(FromHexString(hex))

\* The message of the prefix assertion: the template literal
\* `Expecting key to begin with ${prefix}, instead got ${prefix}`.
PrefixMessage(prefix, actualPrefix) ==
    [template |-> "Expecting key to begin with ${1}, instead got ${2}",
     args |-> <<prefix, prefix>>]

\* Signature.fromStringOrThrow.
fromStringOrThrow_bufferFirst(signature, prefix) ==
    LET actualPrefix == Slice(signature, 0, Len(prefix))
        body == Slice(signature, Len(prefix), Len(signature))
    IN  IF actualPrefix # prefix
        THEN LET message == PrefixMessage(prefix, actualPrefix)
             IN  AssertEqual(JsString(actualPrefix), JsString(prefix),
                             message.template, message.args)
        ELSE IF ~IsBase58(body)
        THEN Throw("Error", "Non-base58 character", <<>>)
        ELSE LET decoded == Base58Decode(body)
                 checksum == ToHexString(SliceLast(decoded, ChecksumLen))
                 buf == SliceButLast(decoded, ChecksumLen)
                 new_checksum == ToHexString(Slice(ripemd160(buf), 0, ChecksumLen))
                 parsed == fromBuffer(buf)
             IN  IF IsThrow(parsed) THEN parsed
                 ELSE IF checksum # new_checksum
                 THEN AssertEqual(JsString(checksum), JsString(new_checksum),
                                  "Checksum did not match, ${1} != ${2}",
                                  <<checksum, new_checksum>>)
                 ELSE parsed
fromStringOrThrow_anyPrefix(signature, prefix) ==
    LET body == Slice(signature, Len(prefix), Len(signature))
    IN  IF ~IsBase58(body)
        THEN Throw("Error", "Non-base58 character", <<>>)
        ELSE LET decoded == Base58Decode(body)
                 checksum == ToHexString(SliceLast(decoded, ChecksumLen))
                 buf == SliceButLast(decoded, ChecksumLen)
                 new_checksum == ToHexString(Slice(ripemd160(buf), 0, ChecksumLen))
             IN  IF checksum # new_checksum
                 THEN AssertEqual(JsString(checksum), JsString(new_checksum),
                                  "Checksum did not match, ${1} != ${2}",
                                  <<checksum, new_checksum>>)
                 ELSE fromBuffer(buf)
fromStringOrThrow(signature, prefix) ==
    LET actualPrefix == Slice(signature, 0, Len(prefix))
        body == Slice(signature, Len(prefix), Len(signature))
    IN  IF actualPrefix # prefix
        THEN LET message == PrefixMessage(prefix, actualPrefix)
             IN  AssertEqual(JsString(actualPrefix), JsString(prefix),
                             message.template, message.args)
        ELSE IF ~IsBase58(body)
        THEN Throw("Error", "Non-base58 character", <<>>)
        ELSE LET decoded == Base58Decode(body)
                 checksum == ToHexString(SliceLast(decoded, ChecksumLen))
                 buf == SliceButLast(decoded, ChecksumLen)
                 new_checksum == ToHexString(Slice(ripemd160(buf), 0, ChecksumLen))
             IN  IF checksum # new_checksum
                 THEN AssertEqual(JsString(checksum), JsString(new_checksum),
                                  "Checksum did not match, ${1} != ${2}",
                                  <<checksum, new_checksum>>)
                 ELSE fromBuffer(buf)

\* Signature.fromString: null instead of any error.
fromString(signature, prefix) ==
    LET parsed == fromStringOrThrow(signature, prefix)
    IN  IF IsThrow(parsed) THEN Null ELSE parsed

\* Signature.from: o.r, o.s and o.i are undefined on strings and Buffers.
from_hexLen128(o) ==
    LET signature ==
            IF Truthy(o)
            THEN IF o.tag = "object" /\ Truthy(o.r) /\ Truthy(o.s) /\ Truthy(o.i) THEN o
                 ELSE IF o.tag = "string" /\ Len(o.str) = HexLen - 2 THEN fromHex(o.str)
                 ELSE IF o.tag = "string" /\ Len(o.str) # HexLen - 2
                 THEN fromString(o.str, address_prefix)
                 ELSE IF o.tag = "buffer" THEN fromBuffer(o.bytes)
                 ELSE Null
            ELSE o
    IN  IF IsThrow(signature) THEN signature
        ELSE IF ~Truthy(signature)
        THEN Throw("TypeError", "signature should be a hex string or buffer", <<>>)
        ELSE signature
from(o) ==
    LET signature ==
            IF Truthy(o)
            THEN IF o.tag = "object" /\ Truthy(o.r) /\ Truthy(o.s) /\ Truthy(o.i) THEN o
                 ELSE IF o.tag = "string" /\ Len(o.str) = HexLen THEN fromHex(o.str)
                 ELSE IF o.tag = "string" /\ Len(o.str) # HexLen
                 THEN fromString(o.str, address_prefix)
                 ELSE IF o.tag = "buffer" THEN fromBuffer(o.bytes)
                 ELSE Null
            ELSE o
    IN  IF IsThrow(signature) THEN signature
        ELSE IF ~Truthy(signature)
        THEN Throw("TypeError", "signature should be a hex string or buffer", <<>>)
        ELSE signature

(***************************************************************************)
(* The collaborators of signature.js, taken as black boxes                 *)
(***************************************************************************)
DigestLen == 32

\* hash.sha256(data): the 32-byte digest of data.
sha256(data) == [of |-> data, length |-> DigestLen]

\* privateKey.toPublic() and PublicKey.fromPoint(Q).
PublicPoint(key) == [of |-> key]
PublicKeyFromPoint(Q) == [tag |-> "PublicKey", Q |-> Q]
toPublic(key) == PublicKeyFromPoint(PublicPoint(key))

\* Values ecdsa.sign may return as r or s:
\*   Big32     32 bytes, top bit clear       (DER length 32)
\*   Big31Top  31 bytes, top bit set         (DER length 32: 0x00 is prepended)
\*   Big32Top  32 bytes, top bit set         (DER length 33)
\*   Big31     31 bytes, top bit clear       (DER length 31)
Big32 == <<127>> \o Fill(255, 31)
Big31Top == <<128>> \o Fill(0, 30)
Big32Top == <<128>> \o Fill(1, 31)
Big31 == <<1>> \o Fill(2, 30)
BigSamples == {Big32, Big31Top, Big32Top, Big31}

Keys == {"k1", "k2"}
Data == {"hello", "other"}
ShortDigest == [of |-> "short", length |-> 31]
SignDigests == {sha256("hello"), ShortDigest}
RecoverDigests == {sha256(d) : d \in Data} \cup {ShortDigest}

\* What `new Buffer(n)` may hold before it is written.
Uninit == {0, 170}

Prefixes == {address_prefix, <<>>, <<"E", "O", "S", "X">>, <<"E", "O">>}

(***************************************************************************)
(* State                                                                   *)
(***************************************************************************)
VARIABLES
    pc,             \* "idle", "signing" (inside signHash's loop) or "returned"
    call,           \* signHash in progress: its digest and private key
    nonce,          \* signHash: the local nonce
    warnLog,        \* signHash: the nonce values logged by console.log so far
    ecsignature,    \* signHash: the local ecsignature (last result of ecdsa.sign)
    sig,            \* the Signature instance the caller holds (r, s, i)
    signatureCache, \* that instance's signatureCache
    bodyRuns,       \* how many times toString computed the body on that instance
    signed,         \* what the curve adapter did for the last signature made
    last            \* the call that has just returned: its arguments and result

vars == <<pc, call, nonce, warnLog, ecsignature, sig, signatureCache, bodyRuns, signed, last>>

None == [tag |-> "none"]
NoCall == [op |-> "none"]

loopVars == <<call, nonce, warnLog, ecsignature>>
instVars == <<sig, signatureCache, bodyRuns, signed>>

Init ==
    /\ pc = "idle"
    /\ call = None
    /\ nonce = 0
    /\ warnLog = <<>>
    /\ ecsignature = Undefined
    /\ sig = None
    /\ signatureCache = Undefined
    /\ bodyRuns = 0
    /\ signed = None
    /\ last = NoCall

(***************************************************************************)
(* Signature.sign / Signature.signHash                                     *)
(***************************************************************************)
\* lenR = der[3]; lenS = der[5 + lenR]; lenR === 32 && lenS === 32.
IsCanonicalDER_rOnly(der) ==
    LET lenR == der[3 + 1]
    IN  lenR = CompLen
IsCanonicalDER(der) ==
    LET lenR == der[3 + 1]
        lenS == der[5 + lenR + 1]
    IN  lenR = CompLen /\ lenS = CompLen

\* i = calcPubKeyRecoveryParam(...); i += 4; i += 27.
RecoveryId(param) == param + CompressedFlag + RecIdBase

\* if (nonce % 10 === 0) console.log(...), after the increment.
WarnDue_first(n) == n = WarnEvery
WarnDue(n) == n % WarnEvery = 0

\* Entry of signHash up to the loop: the length check throws; otherwise the
\* loop starts with nonce = 0.
SignHashEnter(dataSha256, privateKey) ==
    /\ pc = "idle"
    /\ IF dataSha256.length # DigestLen
       THEN /\ pc' = "returned"
            /\ last' = [op |-> "signHash", dataSha256 |-> dataSha256,
                        ret |-> Throw("Error", "dataSha256: 32 byte buffer requred", <<>>)]
            /\ UNCHANGED <<loopVars, instVars>>
       ELSE /\ pc' = "signing"
            /\ call' = [tag |-> "signHash", dataSha256 |-> dataSha256, privateKey |-> privateKey]
            /\ nonce' = 0
            /\ warnLog' = <<>>
            /\ ecsignature' = Undefined
            /\ sig' = None
            /\ signatureCache' = Undefined
            /\ bodyRuns' = 0
            /\ signed' = None
            /\ last' = NoCall

SignHash == \E d \in SignDigests, k \in Keys : SignHashEnter(d, k)

\* Signature.sign(data, privateKey): signHash of sha256(data).
Sign == \E k \in Keys : SignHashEnter(sha256("hello"), k)

\* One iteration of the loop: ecdsa.sign answers (r, s) for this nonce, and
\* calcPubKeyRecoveryParam answers param when the result is canonical.
SignHashIterate(r, s, param) ==
    /\ pc = "signing"
    /\ LET ecsig == [r |-> r, s |-> s]
           der == ToDER(ecsig)
           n == nonce + 1
       IN  IF IsCanonicalDER(der)
           THEN LET i == RecoveryId(param)
                    S == Signature(r, s, i)
                IN  /\ pc' = "returned"
                    /\ sig' = S
                    /\ signatureCache' = Undefined
                    /\ bodyRuns' = 0
                    /\ signed' = [tag |-> "signed", dataSha256 |-> call.dataSha256,
                                  privateKey |-> call.privateKey, param |-> param, S |-> S]
                    /\ last' = [op |-> "signHash", dataSha256 |-> call.dataSha256,
                                attempts |-> n, warnings |-> warnLog, ret |-> S]
                    /\ call' = None /\ nonce' = 0 /\ warnLog' = <<>> /\ ecsignature' = Undefined
           ELSE /\ nonce < MaxNonce
                /\ nonce' = n
                /\ ecsignature' = ecsig
                /\ warnLog' = IF WarnDue(n) THEN Append(warnLog, n) ELSE warnLog
                /\ UNCHANGED <<pc, call, instVars, last>>

SignHashLoop == \E r \in BigSamples, s \in BigSamples, param \in 0..3 : SignHashIterate(r, s, param)

(***************************************************************************)
(* Instance methods (closures over r, s, i and signatureCache)             *)
(***************************************************************************)
HasSig == pc = "idle" /\ sig.tag = "Signature"

ToBuffer ==
    /\ HasSig
    /\ \E junk \in Uninit :
           last' = [op |-> "toBuffer", ret |-> toBuffer(sig, junk)]
    /\ pc' = "returned"
    /\ UNCHANGED <<loopVars, instVars>>

ToHex ==
    /\ HasSig
    /\ \E junk \in Uninit :
           last' = [op |-> "toHex", ret |-> toHex(sig, junk)]
    /\ pc' = "returned"
    /\ UNCHANGED <<loopVars, instVars>>

ToStringCall ==
    /\ HasSig
    /\ \E prefix \in Prefixes, junk \in Uninit :
           LET res == toString(sig, signatureCache, prefix, junk)
           IN  /\ signatureCache' = res.cache
               /\ bodyRuns' = IF res.computed THEN bodyRuns + 1 ELSE bodyRuns
               /\ last' = [op |-> "toString", prefix |-> prefix,
                            cached |-> ~res.computed, ret |-> res.ret]
    /\ pc' = "returned"
    /\ UNCHANGED <<loopVars, sig, signed>>

\* ecdsa.recoverPubKey(curve, e, {r, s, i}, i2): the i2-th candidate point.
\* The candidate that calcPubKeyRecoveryParam found equal to the signer's
\* public key is that key; every other candidate is some other point.
recoverPubKey(e, sg, i2) ==
    IF /\ signed.tag = "signed"
       /\ e = signed.dataSha256
       /\ sg.r = signed.S.r
       /\ sg.s = signed.S.s
       /\ i2 = signed.param
    THEN PublicPoint(signed.privateKey)
    ELSE [candidate |-> i2, e |-> e]

recoverHash(dataSha256) ==
    IF dataSha256.length # DigestLen
    THEN [op |-> "recoverHash", dataSha256 |-> dataSha256,
          ret |-> Throw("Error", "dataSha256: 32 byte String or buffer requred", <<>>)]
    ELSE LET i2 == recoverParam(sig.i)
             Q == recoverPubKey(dataSha256, sig, i2)
         IN  [op |-> "recoverHash", dataSha256 |-> dataSha256, i2 |-> i2,
              ret |-> PublicKeyFromPoint(Q)]

RecoverHash ==
    /\ HasSig
    /\ \E dataSha256 \in RecoverDigests : last' = recoverHash(dataSha256)
    /\ pc' = "returned"
    /\ UNCHANGED <<loopVars, instVars>>

\* recover(data): recoverHash of sha256(data).
Recover ==
    /\ HasSig
    /\ \E data \in Data : last' = recoverHash(sha256(data))
    /\ pc' = "returned"
    /\ UNCHANGED <<loopVars, instVars>>

(***************************************************************************)
(* Inputs of the parsing functions.  They are built from what the          *)
(* caller's instance serialises to, altered in the ways the parsers must   *)
(* tell apart.                                                             *)
(***************************************************************************)
FirstBytes == {0, 255} \cup (20 .. 40)

BufferInputs ==
    IF sig.tag # "Signature" THEN {<<>>}
    ELSE LET buf == toBuffer(sig, 0)
         IN  {[buf EXCEPT ![1] = b] : b \in FirstBytes}
             \cup {<<>>, Slice(buf, 0, SigLen - 1), buf \o <<0>>, <<RecIdBase>> \o buf}

NotHex == Fill("z", HexLen)

HexInputs ==
    IF sig.tag # "Signature" THEN {<<>>, NotHex}
    ELSE LET buf == toBuffer(sig, 0)
         IN  {ToHexString(buf), ToHexString([buf EXCEPT ![1] = RecIdBase - 1]),
              ToHexString(Slice(buf, 0, SigLen - 1)), NotHex}

\* The bytes a valid signature string decodes to: the signature, then the
\* first four bytes of its RIPEMD160.
Payload(sg) ==
    LET buf == toBuffer(sg, 0)
    IN  buf \o Slice(ripemd160(buf), 0, ChecksumLen)

\* Where one byte of the payload is changed (0-based), and to what: another
\* value, and the value that agrees with it modulo 251 when there is one.
FlipPositions == {0, 1, CompLen, SigLen - 1, SigLen, SigLen + ChecksumLen - 1}
FlipValues(b) ==
    {(b + 1) % 256}
        \cup (IF b >= 251 THEN {b - 251} ELSE {})
        \cup (IF b + 251 <= 255 THEN {b + 251} ELSE {})

TextPrefixes == Prefixes \cup {<<"P", "U", "B">>}

\* A text, with how it was made: from the bytes `payload`, under prefix q.
TextOf(q, payload, made, pos) ==
    [text |-> q \o Base58Encode(payload), q |-> q, payload |-> payload,
     made |-> made, pos |-> pos]

\* Texts under each prefix q: the valid body, and q alone; and one text
\* with a character outside the base58 alphabet.
PlainInputs ==
    IF sig.tag # "Signature"
    THEN {[text |-> q, q |-> q, payload |-> <<>>, made |-> "bare", pos |-> 0] :
              q \in TextPrefixes}
    ELSE LET payload == Payload(sig)
             body == Base58Encode(payload)
         IN  {[text |-> q \o body, q |-> q, payload |-> payload,
               made |-> "valid", pos |-> 0] : q \in TextPrefixes}
             \cup {[text |-> q, q |-> q, payload |-> <<>>, made |-> "bare", pos |-> 0] :
                      q \in TextPrefixes}
             \cup {[text |-> address_prefix \o <<"0">> \o body, q |-> address_prefix,
                    payload |-> payload, made |-> "notBase58", pos |-> 0]}

\* Texts under the default prefix whose payload differs from the valid one
\* in the single byte at pos.
FlipInputs ==
    IF sig.tag # "Signature" THEN {}
    ELSE LET payload == Payload(sig)
         IN  UNION {
                {TextOf(address_prefix, [payload EXCEPT ![pos + 1] = v], "flip", pos) :
                     v \in FlipValues(payload[pos + 1])} : pos \in FlipPositions}

StringInputs == PlainInputs \cup FlipInputs

ParsePrefixes == {address_prefix, <<>>}

(***************************************************************************)
(* Static parsing functions                                                *)
(***************************************************************************)
FromBuffer ==
    /\ pc = "idle"
    /\ \E buf \in BufferInputs :
           last' = [op |-> "fromBuffer", buf |-> buf, ret |-> fromBuffer(buf)]
    /\ pc' = "returned"
    /\ UNCHANGED <<loopVars, instVars>>

FromHex ==
    /\ pc = "idle"
    /\ \E hex \in HexInputs :
           last' = [op |-> "fromHex", hex |-> hex, ret |-> fromHex(hex)]
    /\ pc' = "returned"
    /\ UNCHANGED <<loopVars, instVars>>

FromStringOrThrow ==
    /\ pc = "idle"
    /\ \E input \in StringInputs : \E prefix \in ParsePrefixes :
           last' = [op |-> "fromStringOrThrow", signature |-> input.text,
                    prefix |-> prefix, input |-> input,
                    ret |-> fromStringOrThrow(input.text, prefix)]
    /\ pc' = "returned"
    /\ UNCHANGED <<loopVars, instVars>>

FromString ==
    /\ pc = "idle"
    /\ \E input \in PlainInputs : \E prefix \in ParsePrefixes :
           last' = [op |-> "fromString", signature |-> input.text,
                    prefix |-> prefix, input |-> input,
                    ret |-> fromString(input.text, prefix)]
    /\ pc' = "returned"
    /\ UNCHANGED <<loopVars, instVars>>

FromInputs ==
    {Null, Undefined, JsString(<<>>), JsNumber(0), JsNumber(5),
     JsObject(Undefined, Undefined, Undefined), JsString(NotHex),
     JsString(<<"E", "O", "S">>), JsBuffer(<<>>)}
        \cup (IF sig.tag # "Signature" THEN {}
              ELSE LET buf == toBuffer(sig, 0)
                       body == Base58Encode(Payload(sig))
                   IN  {AsObject(sig),
                        JsObject(JsBig(sig.r), JsBig(sig.s), JsNumber(0)),
                        JsObject(JsBig(sig.r), Undefined, JsNumber(sig.i)),
                        JsObject(Null, JsBig(sig.s), JsNumber(sig.i)),
                        JsString(ToHexString(buf)),
                        JsString(ToHexString(Slice(buf, 0, SigLen - 1))),
                        JsString(address_prefix \o body),
                        JsString(<<"P", "U", "B">> \o body),
                        JsString(body),
                        JsBuffer(buf),
                        JsBuffer(Slice(buf, 0, SigLen - 1))})

From ==
    /\ pc = "idle"
    /\ \E o \in FromInputs : last' = [op |-> "from", o |-> o, ret |-> from(o)]
    /\ pc' = "returned"
    /\ UNCHANGED <<loopVars, instVars>>

(***************************************************************************)
(* The caller takes the result of the call and is free to call again.      *)
(***************************************************************************)
Return ==
    /\ pc = "returned"
    /\ pc' = "idle"
    /\ last' = NoCall
    /\ UNCHANGED <<loopVars, instVars>>

Next ==
    \/ Sign
    \/ SignHash
    \/ SignHashLoop
    \/ ToBuffer
    \/ ToHex
    \/ ToStringCall
    \/ RecoverHash
    \/ Recover
    \/ FromBuffer
    \/ FromHex
    \/ FromStringOrThrow
    \/ FromString
    \/ From
    \/ Return

Spec == Init /\ [][Next]_vars

(***************************************************************************)
(* Vocabulary of the properties                                            *)
(***************************************************************************)
IsSignature(v) == v.tag = "Signature"

\* Equal r, s and recovery id.
SameSignature(a, b) ==
    /\ IsSignature(a) /\ IsSignature(b)
    /\ a.r = b.r /\ a.s = b.s /\ a.i = b.i

IsFormatError(v) ==
    /\ IsThrow(v)
    /\ v.error = "AssertionError"
    /\ v.message.template \in {"Invalid signature length", "Invalid signature parameter"}

IsPrefixMismatch(v) ==
    /\ IsThrow(v)
    /\ v.error = "AssertionError"
    /\ v.message.template = "Expecting key to begin with ${1}, instead got ${2}"

IsChecksumMismatch(v) ==
    /\ IsThrow(v)
    /\ v.error = "AssertionError"
    /\ v.message.template = "Checksum did not match, ${1} != ${2}"

IsTypeError(v) == IsThrow(v) /\ v.error = "TypeError"

\* t begins with the characters of p.
IsPrefixOf(p, t) == Len(p) <= Len(t) /\ \A k \in 1..Len(p) : t[k] = p[k]

\* The multiples of 10 up to n: <<10, 20, ...>>.
Tens(n) == [k \in 1..(n \div WarnEvery) |-> WarnEvery * k]

\* The length of the DER INTEGER of a value, and of its unsigned big-endian
\* bytes.
DERLen(big) == Len(ToDERInteger(big))
UnsignedLen(big) == Len(big)

\* The first four bytes of the digest of the signature part of a payload.
Checksum4(payload) == Slice(ripemd160(Slice(payload, 0, SigLen)), 0, ChecksumLen)

(***************************************************************************)
(* C1.  Round trip: for the signature S that signHash returned,            *)
(* fromBuffer(S.toBuffer()) has the r, s and recovery id of S, and for     *)
(* every prefix p fromStringOrThrow(S.toString(p), p) has them too.        *)
(***************************************************************************)
C1_RoundTrip ==
    /\ last.op = "toBuffer" => SameSignature(fromBuffer(last.ret), sig)
    /\ last.op = "toString" =>
           SameSignature(fromStringOrThrow(last.ret, last.prefix), sig)

C1_Witness ==
    /\ last.op = "toString"
    /\ last.prefix = <<"E", "O">>
    /\ sig = signed.S
    /\ UnsignedLen(sig.r) < CompLen
    /\ SameSignature(fromStringOrThrow(last.ret, last.prefix), sig)

(***************************************************************************)
(* C2.  Canonicality as first stated: every signature signHash returns has *)
(* r and s of exactly 32 bytes each as unsigned big-endian integers.       *)
(***************************************************************************)
C2_UnsignedLength ==
    (last.op = "signHash" /\ IsSignature(last.ret)) =>
        /\ UnsignedLen(last.ret.r) = CompLen
        /\ UnsignedLen(last.ret.s) = CompLen

(***************************************************************************)
(* C2, amended.  Every signature signHash returns has r and s whose DER    *)
(* INTEGER encodings are exactly 32 bytes each, whatever non-canonical     *)
(* results ecdsa.sign gave first; every result kept in the loop was        *)
(* non-canonical, and a call with a 32-byte digest never ends in an error. *)
(***************************************************************************)
C2_CanonicalDER ==
    /\ (last.op = "signHash" /\ IsSignature(last.ret)) =>
           /\ DERLen(last.ret.r) = CompLen
           /\ DERLen(last.ret.s) = CompLen
           /\ sig = last.ret
    /\ (last.op = "signHash" /\ last.dataSha256.length = DigestLen) =>
           IsSignature(last.ret)
    /\ (pc = "signing" /\ nonce > 0) =>
           ~(DERLen(ecsignature.r) = CompLen /\ DERLen(ecsignature.s) = CompLen)

C2_Witness ==
    /\ last.op = "signHash"
    /\ IsSignature(last.ret)
    /\ last.attempts > 3
    /\ UnsignedLen(last.ret.r) = CompLen - 1
    /\ DERLen(last.ret.r) = CompLen

(***************************************************************************)
(* C3.  Recovery: signHash stores the recovery id param + 4 + 27, where    *)
(* param in 0..3 is what calcPubKeyRecoveryParam returned; recoverHash of  *)
(* the signed digest passes exactly that param to recoverPubKey and so     *)
(* returns the signer's public key.                                        *)
(***************************************************************************)
C3_Recovery ==
    /\ signed.tag = "signed" =>
           /\ signed.param \in 0..3
           /\ signed.S.i = signed.param + 4 + 27
    /\ (/\ last.op = "recoverHash"
        /\ signed.tag = "signed"
        /\ sig = signed.S
        /\ last.dataSha256 = signed.dataSha256) =>
           /\ last.i2 = signed.param
           /\ last.ret = toPublic(signed.privateKey)

C3_Witness ==
    /\ last.op = "recoverHash"
    /\ signed.tag = "signed"
    /\ sig = signed.S
    /\ last.dataSha256 = signed.dataSha256
    /\ signed.param = 3
    /\ signed.privateKey = "k2"
    /\ last.ret = toPublic("k2")

(***************************************************************************)
(* C4.  fromBuffer(buf) returns a Signature exactly when buf is 65 bytes   *)
(* long and its first byte is in 27..34, and fails with a format error     *)
(* otherwise.  On success the recovery id is byte 0, r is the unsigned     *)
(* big-endian integer of bytes 1..32 and s that of bytes 33..64.           *)
(***************************************************************************)
\* big is the unsigned big-endian integer of the 32 bytes.
IsValueOf(big, bytes) ==
    /\ Len(big) <= Len(bytes)
    /\ (big # <<>> => big[1] # 0)
    /\ \A k \in 1..Len(bytes) :
           bytes[k] = IF k <= Len(bytes) - Len(big) THEN 0
                      ELSE big[k - (Len(bytes) - Len(big))]

C4_FromBuffer ==
    last.op = "fromBuffer" =>
        LET buf == last.buf
            ok == Len(buf) = 65 /\ buf[1] >= 27 /\ buf[1] <= 34
        IN  /\ ok <=> IsSignature(last.ret)
            /\ ~ok => IsFormatError(last.ret)
            /\ ok => /\ last.ret.i = buf[1]
                     /\ IsValueOf(last.ret.r, SubSeq(buf, 2, 33))
                     /\ IsValueOf(last.ret.s, SubSeq(buf, 34, 65))

C4_Witness ==
    /\ last.op = "fromBuffer"
    /\ Len(last.buf) = 65
    /\ last.buf[1] = 34
    /\ last.buf[2] = 0
    /\ IsSignature(last.ret)
    /\ last.ret.i = 34

(***************************************************************************)
(* C5.  Checksum enforcement: when one byte of the 69 bytes of a valid     *)
(* signature string is changed (in the signature, its recovery id          *)
(* included, or in the checksum) and the result is encoded again under the *)
(* prefix, fromStringOrThrow fails with the checksum error, unless the     *)
(* first four digest bytes of the changed signature collide with those of  *)
(* the original.                                                           *)
(***************************************************************************)
Collides(input) ==
    /\ input.pos < SigLen
    /\ Checksum4(input.payload) = Slice(input.payload, SigLen, SigLen + ChecksumLen)

C5_ChecksumEnforced ==
    (/\ last.op = "fromStringOrThrow"
     /\ last.input.made = "flip"
     /\ last.input.q = last.prefix) =>
        \/ IsChecksumMismatch(last.ret)
        \/ Collides(last.input)

C5_Witness ==
    /\ last.op = "fromStringOrThrow"
    /\ last.input.made = "flip"
    /\ last.input.q = last.prefix
    /\ last.input.pos = 0
    /\ last.input.payload[1] = 35
    /\ ~Collides(last.input)
    /\ IsChecksumMismatch(last.ret)

(***************************************************************************)
(* C6.  Prefix enforcement as first stated: fromStringOrThrow fails with   *)
(* the prefix error whenever the text was written under any prefix other   *)
(* than the expected one, shorter and longer ones included.                *)
(***************************************************************************)
C6_AnyOtherPrefix ==
    (/\ last.op = "fromStringOrThrow"
     /\ last.input.made \in {"valid", "bare"}
     /\ last.input.q # last.prefix) =>
        IsPrefixMismatch(last.ret)

(***************************************************************************)
(* C6, amended.  fromStringOrThrow fails with the prefix error, and with   *)
(* no other error and no Signature, exactly when the first len(prefix)     *)
(* characters of the text are not the expected prefix; that covers a       *)
(* different prefix of the same length, a text shorter than the prefix and *)
(* a shorter prefix that the body does not complete.  A text whose own     *)
(* prefix extends the expected one passes the prefix check.                *)
(***************************************************************************)
C6_PrefixEnforced ==
    last.op = "fromStringOrThrow" =>
        (IsPrefixMismatch(last.ret) <=> ~IsPrefixOf(last.prefix, last.signature))

C6_Witness ==
    /\ last.op = "fromStringOrThrow"
    /\ last.prefix = address_prefix
    /\ last.input.q = <<"E", "O">>
    /\ last.input.made = "valid"
    /\ IsPrefixMismatch(last.ret)

(***************************************************************************)
(* C7.  The message of the prefix error names the expected prefix and the  *)
(* actual prefix found at the start of the text (its first len(prefix)     *)
(* characters).                                                            *)
(***************************************************************************)
C7_NamesActualPrefix ==
    (last.op = "fromStringOrThrow" /\ IsPrefixMismatch(last.ret)) =>
        last.ret.message.args =
            <<last.prefix, Slice(last.signature, 0, Len(last.prefix))>>

(***************************************************************************)
(* C8.  Signature.from dispatches on the shape of its argument: a record   *)
(* with truthy r, s and i is returned as it is; a string of 130 characters *)
(* goes to fromHex; any other non-empty string is parsed as a prefixed     *)
(* string under the default prefix; a Buffer goes to fromBuffer; anything  *)
(* else, and a string that does not parse, is a TypeError.  from(S.toHex())*)
(* and from(S.toString()) give back S.                                     *)
(***************************************************************************)
C8_From ==
    /\ last.op = "from" =>
        LET o == last.o
            ret == last.ret
        IN  CASE o.tag = "object" /\ Truthy(o.r) /\ Truthy(o.s) /\ Truthy(o.i) ->
                     ret = o
              [] o.tag = "string" /\ Len(o.str) = 130 ->
                     ret = fromBuffer(FromHexString(o.str))
              [] o.tag = "string" /\ Len(o.str) # 130 /\ Len(o.str) > 0 ->
                     LET parsed == fromStringOrThrow(o.str, address_prefix)
                     IN  IF IsThrow(parsed) THEN IsTypeError(ret) ELSE ret = parsed
              [] o.tag = "buffer" ->
                     ret = fromBuffer(o.bytes)
              [] OTHER -> IsTypeError(ret)
    /\ last.op = "toHex" => SameSignature(from(JsString(last.ret)), sig)
    /\ (last.op = "toString" /\ last.prefix = address_prefix) =>
           SameSignature(from(JsString(last.ret)), sig)

C8_Witness ==
    /\ last.op = "from"
    /\ last.o.tag = "string"
    /\ Len(last.o.str) = 130
    /\ SameSignature(last.ret, sig)

(***************************************************************************)
(* C9.  The memoized body is write-once: on one instance the body is       *)
(* computed by the first toString call only and is never changed or        *)
(* cleared by any later call of the instance; r, s and the recovery id     *)
(* never change; and every toString(p) returns p followed by               *)
(* base58(toBuffer() ++ first 4 bytes of RIPEMD160(toBuffer())).           *)
(***************************************************************************)
C9_WriteOnce ==
    [][ /\ (pc # "signing" /\ pc' # "signing") =>
               /\ sig' = sig
               /\ Truthy(signatureCache) => signatureCache' = signatureCache
               /\ bodyRuns' >= bodyRuns
        /\ bodyRuns' <= 1
        /\ Truthy(signatureCache') <=> bodyRuns' = 1
        /\ last'.op = "toString" =>
               LET body == Base58Encode(Payload(sig))
               IN  /\ last'.ret = last'.prefix \o body
                   /\ signatureCache' = JsString(body)
                   /\ last'.cached <=> Truthy(signatureCache)
      ]_vars

C9_Witness ==
    /\ last.op = "toString"
    /\ last.cached
    /\ last.prefix = <<"E", "O", "S", "X">>
    /\ bodyRuns = 1
    /\ last.ret = last.prefix \o signatureCache.str

(***************************************************************************)
(* C10.  The warning as first stated: a call of signHash that needed 10 or *)
(* more attempts has logged a warning.                                     *)
(***************************************************************************)
C10_WarnsAtTenAttempts ==
    (last.op = "signHash" /\ IsSignature(last.ret) /\ last.attempts >= 10) =>
        Len(last.warnings) >= 1

(***************************************************************************)
(* C10, amended.  A warning is logged after every 10th non-canonical       *)
(* attempt in a row (so from 11 attempts on), and only then; the loop      *)
(* never ends because of a warning or of the number of attempts: it goes   *)
(* on after every non-canonical result and returns the first canonical     *)
(* one.                                                                    *)
(***************************************************************************)
C10_WarnEveryTenFailures ==
    /\ pc = "signing" =>
           /\ warnLog = Tens(nonce)
           /\ nonce > 0 => ~IsCanonicalDER(ToDER(ecsignature))
    /\ (last.op = "signHash" /\ last.dataSha256.length = DigestLen) =>
           /\ IsSignature(last.ret)
           /\ last.warnings = Tens(last.attempts - 1)
           /\ DERLen(last.ret.r) = CompLen /\ DERLen(last.ret.s) = CompLen

C10_Witness ==
    /\ last.op = "signHash"
    /\ IsSignature(last.ret)
    /\ last.attempts = 21
    /\ last.warnings = <<10, 20>>

====
